---- MODULE Spec2Model ----
(***************************************************************************)
(* Model of src/app.py, the investment dashboard.                          *)
(*                                                                         *)
(* Text is modelled as a sequence of one-character strings, so that        *)
(* strip(), re.sub(), upper(), float() and f-string formatting are         *)
(* computed character by character as Python computes them.  The Chinese   *)
(* characters of the source cannot be written in a module, so each is      *)
(* transliterated by one ASCII letter where it occurs (see the comments).  *)
(***************************************************************************)
EXTENDS Integers, Sequences, FiniteSets, TLC

VARIABLES
    tab_data,       \* detail view: ws.get_all_values() of the selected tab
    final_headers,  \* detail view: the header list handed to pd.DataFrame
    val,            \* clean_currency_value: the argument
    cc_result,      \* clean_currency_value: what the call produced
    cc_pc,          \* clean_currency_value: "start" | "done"
    sheet_headers,  \* overview: header row of the summary tab
    sheet_rows,     \* overview: data rows of the summary tab
    ov,             \* overview: what the last run of the view produced
    menu,           \* the sidebar radio's selection in the last run
    entry,          \* add view: the values the user types into the form
    form,           \* add view: the widgets' values in the last run
    submit_btn,     \* add view: submit_btn of the last run
    est_units,      \* add view: est_units of the last run
    new_row,        \* add view: the row this run handed to ws.append_row, if any
    ws_rows,        \* number of rows appended to the target tab so far
    run_log         \* store, cache and message calls of the last run, in order

vars == <<tab_data, final_headers, val, cc_result, cc_pc,
          sheet_headers, sheet_rows, ov,
          menu, entry, form, submit_btn, est_units, new_row, ws_rows, run_log>>

\* The sheet and the argument of the function under test: no run changes them
inputs == <<tab_data, sheet_headers, sheet_rows, val, entry>>
cc_vars == <<cc_result, cc_pc>>

(***************************************************************************)
(* Bounds of the model.                                                    *)
(***************************************************************************)
MaxCols == 3        \* header rows of the detail view have at most this many cells
MaxStrLen == 3      \* text arguments of clean_currency_value
MaxMant == 2        \* numeric arguments are m * 10^e with |m| <= MaxMant
MaxHeaders == 4     \* header rows of the summary tab (column lookup)
MaxRows == 2        \* data rows of the summary tab (aggregation)
MaxPrice == 1
MaxAmount == 2
MaxFee == 1
MaxAppends == 2     \* rows appended to the target tab

(***************************************************************************)
(* Text helpers.                                                           *)
(***************************************************************************)
\* str.isspace() on one character; \s of the re module
IsSpace(c) == c \in {" ", "\t", "\n"}

RECURSIVE LStrip(_)
LStrip(s) == IF s # <<>> /\ IsSpace(Head(s)) THEN LStrip(Tail(s)) ELSE s

RECURSIVE RStrip(_)
RStrip(s) ==
    IF s # <<>> /\ IsSpace(s[Len(s)]) THEN RStrip(SubSeq(s, 1, Len(s) - 1)) ELSE s

\* str.strip()
Strip(s) == RStrip(LStrip(s))

DigitChar(d) == <<"0", "1", "2", "3", "4", "5", "6", "7", "8", "9">>[d + 1]

\* str(n) / f"{n}" of an int n >= 0
RECURSIVE DigitsOf(_)
DigitsOf(n) ==
    IF n < 10 THEN <<DigitChar(n)>> ELSE DigitsOf(n \div 10) \o <<DigitChar(n % 10)>>

\* All sequences over S of length at most n
SeqsUpTo(S, n) == UNION {[1..k -> S] : k \in 0..n}

(***************************************************************************)
(* Detail view: the header loop (app.py 167-182).                          *)
(***************************************************************************)
\* f"空欄_{i}": the two characters of the placeholder are written k, l
BlankName(i) == <<"k", "l", "_">> \o DigitsOf(i)

\* f"{col_name}_{header_count[col_name]}"
SuffixedName(col_name, n) == col_name \o <<"_">> \o DigitsOf(n)

\* One iteration of the loop, for the 0-based index i and the cell text:
\* st is [final_headers, header_count], header_count a function on the names seen
HeaderStep(st, i, cell) ==
    LET stripped == Strip(cell)
        col_name == IF stripped = <<>> THEN BlankName(i) ELSE stripped
        hc == st.header_count
    IN  IF col_name \in DOMAIN hc
        THEN [final_headers |->
                  Append(st.final_headers, SuffixedName(col_name, hc[col_name] + 1)),
              header_count |-> [hc EXCEPT ![col_name] = @ + 1]]
        ELSE [final_headers |-> Append(st.final_headers, col_name),
              header_count |-> (col_name :> 0) @@ hc]

RECURSIVE HeaderLoop(_, _)
HeaderLoop(raw, n) ==
    IF n = 0
    THEN [final_headers |-> <<>>, header_count |-> <<>>]
    ELSE HeaderStep(HeaderLoop(raw, n - 1), n - 1, raw[n])

NormalizeHeaders(raw) == HeaderLoop(raw, Len(raw)).final_headers

\* Header cells the detail view is run on: "", " ", "X", " X ", "X_1", "空欄_1"
HeaderPool ==
    { <<>>, <<" ">>, <<"X">>, <<" ", "X", " ">>, <<"X", "_", "1">>,
      <<"k", "l", "_", "1">> }

(***************************************************************************)
(* Numbers.  A Python number is modelled as the decimal m * 10^e, kept in  *)
(* the normal form where m has no trailing zero (and 0 is 0 * 10^0), so    *)
(* that equal numbers are equal values of the model.  Binary rounding of   *)
(* float is not modelled.                                                  *)
(***************************************************************************)
Abs(x) == IF x < 0 THEN -x ELSE x

RECURSIVE NormDec(_, _)
NormDec(m, e) ==
    IF m = 0 THEN [m |-> 0, e |-> 0]
    ELSE IF m % 10 = 0 THEN NormDec(m \div 10, e + 1)
    ELSE [m |-> m, e |-> e]

Zero == [m |-> 0, e |-> 0]

RECURSIVE NumDigits(_)
NumDigits(n) == IF n < 10 THEN 1 ELSE 1 + NumDigits(n \div 10)

RECURSIVE Pow10(_)
Pow10(k) == IF k = 0 THEN 1 ELSE 10 * Pow10(k - 1)

\* sys.float_info.max_10_exp: the largest double is 1.7976931348623157e308
DblMax10Exp == 308

\* float(n) of an int n raises OverflowError when |n| is beyond the largest
\* double.  lead2 is the first two digits of m; the comparison with 1.79...
\* is exact for the mantissas of the model (at most two digits).
IntTooLarge(d) ==
    LET a == Abs(d.m)
        k == NumDigits(a)
        E == d.e + k - 1
        lead2 == IF k = 1 THEN 10 * a ELSE a \div Pow10(k - 2)
    IN  a # 0 /\ (E > DblMax10Exp \/ (E = DblMax10Exp /\ lead2 >= 18))

(***************************************************************************)
(* clean_currency_value (app.py 25-36).                                    *)
(***************************************************************************)
Digits == {"0", "1", "2", "3", "4", "5", "6", "7", "8", "9"}

DigitVal(c) == CHOOSE d \in 0..9 : DigitChar(d) = c

\* re.sub(r'[$,\s]', '', val)
ReSubClean(s) == SelectSeq(s, LAMBDA c : ~(c \in {"$", ","} \/ IsSpace(c)))

\* The int written by a sequence of digits
RECURSIVE DigitsValue(_)
DigitsValue(ds) ==
    IF ds = <<>> THEN 0
    ELSE 10 * DigitsValue(SubSeq(ds, 1, Len(ds) - 1)) + DigitVal(ds[Len(ds)])

\* float(s) of a str: [ok |-> TRUE, value |-> d], or [ok |-> FALSE] for ValueError.
\* An optional sign, then digits with at most one point and at least one digit.
\* (The exponent, underscore, inf and nan spellings need characters that the
\* texts of the model do not contain.)
PyFloatStr(s) ==
    LET t == Strip(s)
        signed == t # <<>> /\ Head(t) \in {"-", "+"}
        body == IF signed THEN Tail(t) ELSE t
        ds == SelectSeq(body, LAMBDA c : c \in Digits)
        points == {i \in 1..Len(body) : body[i] = "."}
        wellFormed == /\ \A i \in 1..Len(body) : body[i] \in Digits \cup {"."}
                      /\ Cardinality(points) <= 1
                      /\ ds # <<>>
        frac == IF points = {} THEN 0
                ELSE Len(body) - (CHOOSE i \in points : TRUE)
        mag == DigitsValue(ds)
    IN  IF wellFormed
        THEN [ok |-> TRUE,
              value |-> NormDec(IF signed /\ Head(t) = "-" THEN -mag ELSE mag, -frac)]
        ELSE [ok |-> FALSE]

Return(d) == [kind |-> "return", value |-> d]
Raise(exc) == [kind |-> "raise", exc |-> exc]

\* float(val) of an int or a float
PyFloatNum(v) ==
    IF v.type = "int" /\ IntTooLarge(v)
    THEN Raise("OverflowError")
    ELSE Return(NormDec(v.m, v.e))

clean_currency_value(v) ==
    IF v.type \in {"int", "float"} THEN PyFloatNum(v)
    ELSE IF v.type = "str"
    THEN LET clean_val == ReSubClean(v.s)
             parsed == PyFloatStr(clean_val)
         IN  IF parsed.ok THEN Return(parsed.value) ELSE Return(Zero)
    ELSE Return(Zero)

\* Characters of the text arguments
CharPool == {"$", ",", " ", "-", ".", "1", "5"}

IntArg(m, e) == [type |-> "int", m |-> NormDec(m, e).m, e |-> NormDec(m, e).e]
FloatArg(m, e) == [type |-> "float", m |-> NormDec(m, e).m, e |-> NormDec(m, e).e]
StrArg(s) == [type |-> "str", s |-> s]
OtherArg == [type |-> "other"]

\* Arguments: ints up to and beyond the range of float, floats, texts, None
ValPool ==
    {IntArg(m, e) : m \in -MaxMant..MaxMant, e \in {0, 1, DblMax10Exp, DblMax10Exp + 1}}
    \cup {FloatArg(m, e) : m \in -MaxMant..MaxMant, e \in {-2, -1, 0, 1}}
    \cup {StrArg(s) : s \in SeqsUpTo(CharPool, MaxStrLen)}
    \cup {OtherArg}

(***************************************************************************)
(* Overview: column lookup, cleaning, grouping, ranking (app.py 64-147).   *)
(*                                                                         *)
(* Header text, one letter per character of the source:                    *)
(*   J K M G = 基金名稱    Z X V = 總現值    H I = 含息                    *)
(*   S Y = 損益            B E = 幣別        C u r r e n c y = Currency    *)
(***************************************************************************)
\* needle in hay, for str: hay has needle as a run of consecutive characters
Contains(hay, needle) ==
    \E k \in 0..(Len(hay) - Len(needle)) :
        \A i \in 1..Len(needle) : hay[k + i] = needle[i]

FundNameText == <<"J", "K", "M", "G">>
TotalValueText == <<"Z", "X", "V">>
WithInterestText == <<"H", "I">>
ProfitText == <<"S", "Y">>
CurrencyZhText == <<"B", "E">>
CurrencyEnText == <<"C", "u", "r", "r", "e", "n", "c", "y">>

\* The conditions of the four list comprehensions
IsCurrCol(c) == Contains(c, CurrencyZhText) \/ Contains(c, CurrencyEnText)
IsValCol(c) == Contains(c, TotalValueText) /\ Contains(c, WithInterestText)
IsProfitCol(c) == Contains(c, ProfitText) /\ Contains(c, WithInterestText)
IsNameCol(c) == Contains(c, FundNameText)

Roles == {"Currency", "Value", "Profit", "Name"}

RoleMatches(role, c) ==
    CASE role = "Currency" -> IsCurrCol(c)
      [] role = "Value" -> IsValCol(c)
      [] role = "Profit" -> IsProfitCol(c)
      [] role = "Name" -> IsNameCol(c)

\* Indices (1-based) of the columns that satisfy a role's condition
Matching(columns, role) == {i \in 1..Len(columns) : RoleMatches(role, columns[i])}

MinOf(S) == CHOOSE i \in S : \A j \in S : i <= j
MaxOf(S) == CHOOSE i \in S : \A j \in S : i >= j

\* A variant that takes the last element of the filtered list
LastOfMatching(columns, role) == columns[MaxOf(Matching(columns, role))]

\* [c for c in df_summary.columns if ...][0]: the first element of the filtered
\* list; the caller handles the empty list (IndexError)
FirstOfMatching(columns, role) == columns[MinOf(Matching(columns, role))]

\* pd.DataFrame(data).columns: a list of no records has no columns
DataFrameColumns(headers, rows) == IF rows = <<>> THEN <<>> ELSE headers

\* The position (1-based) of a column label
ColumnIndex(columns, label) == MinOf({i \in 1..Len(columns) : columns[i] = label})

\* str.upper() on the letters of the model
UpperChar(c) ==
    CASE c = "u" -> "U" [] c = "s" -> "S" [] c = "d" -> "D"
      [] c = "t" -> "T" [] c = "w" -> "W" [] OTHER -> c

Upper(s) == [i \in 1..Len(s) |-> UpperChar(s[i])] \o <<>>

\* str(x) of a cell, as astype(str) does: an int's digits, a float's shortest
\* decimal spelling, the text itself
PyStr(v) ==
    CASE v.type = "str" -> v.s
      [] v.type = "int" ->
            (IF v.m < 0 THEN <<"-">> ELSE <<>>) \o DigitsOf(Abs(v.m) * Pow10(v.e))
      [] v.type = "float" ->
            (IF v.m < 0 THEN <<"-">> ELSE <<>>) \o
            (IF v.e >= 0
             THEN DigitsOf(Abs(v.m) * Pow10(v.e)) \o <<".", "0">>
             ELSE LET scale == Pow10(-v.e)
                      fracDigits == DigitsOf(Abs(v.m) % scale)
                      pad == [i \in 1..(-v.e - Len(fracDigits)) |-> "0"]
                  IN  DigitsOf(Abs(v.m) \div scale) \o <<".">> \o pad \o fracDigits)
      [] OTHER -> <<"N", "o", "n", "e">>

\* .astype(str).str.upper().str.strip()
CanonCurrency(v) == Strip(Upper(PyStr(v)))

\* Float arithmetic on the decimals
Min2(a, b) == IF a <= b THEN a ELSE b

DecAdd(a, b) ==
    LET e == Min2(a.e, b.e)
    IN  NormDec(a.m * Pow10(a.e - e) + b.m * Pow10(b.e - e), e)

DecSub(a, b) == DecAdd(a, [m |-> -b.m, e |-> b.e])

DecLess(a, b) == DecSub(a, b).m < 0

\* Series.sum() over the rows whose index is in idx (ascending)
RECURSIVE SumOver(_, _)
SumOver(f, idx) ==
    IF idx = {} THEN Zero
    ELSE LET i == MaxOf(idx) IN DecAdd(SumOver(f, idx \ {i}), f[i])

RECURSIVE Gcd(_, _)
Gcd(a, b) == IF b = 0 THEN a ELSE Gcd(b, a % b)

\* The quotient p / q of two ints (q # 0) as a fraction in lowest terms
Frac(p, q) ==
    LET g == Gcd(Abs(p), Abs(q))
        sgn == IF q < 0 THEN -1 ELSE 1
    IN  [n |-> sgn * (p \div g), d |-> sgn * (q \div g)]

\* a / b of two floats, b # 0
DecDiv(a, b) ==
    LET e == Min2(a.e, b.e)
    IN  Frac(a.m * Pow10(a.e - e), b.m * Pow10(b.e - e))

FracTimes(f, k) == Frac(f.n * k, f.d)

\* A variant without the factor 100
RoiUnscaled(total_profit, total_cost) ==
    IF total_cost # Zero
    THEN DecDiv(total_profit, total_cost)
    ELSE [n |-> 0, d |-> 1]

\* roi = (total_profit / total_cost * 100) if total_cost != 0 else 0
Roi(total_profit, total_cost) ==
    IF total_cost # Zero
    THEN FracTimes(DecDiv(total_profit, total_cost), 100)
    ELSE [n |-> 0, d |-> 1]

\* A variant that keeps repeated values
UniqueNoDedup(s) == s

\* Series.unique(): the distinct values in order of first appearance
RECURSIVE Unique(_)
Unique(s) ==
    IF s = <<>> THEN <<>>
    ELSE LET init == Unique(SubSeq(s, 1, Len(s) - 1))
             last == s[Len(s)]
         IN  IF \E i \in 1..Len(init) : init[i] = last THEN init ELSE Append(init, last)

\* The body of the per-currency loop for one currency
CurrencyMetrics(currency, curr, value, profit) ==
    LET df_curr == {i \in 1..Len(curr) : curr[i] = currency}
        total_assets == SumOver(value, df_curr)
        total_profit == SumOver(profit, df_curr)
        total_cost == DecSub(total_assets, total_profit)
    IN  [currency |-> currency,
         total_assets |-> total_assets,
         total_profit |-> total_profit,
         roi |-> Roi(total_profit, total_cost),
         count |-> Cardinality(df_curr)]

\* The orders sort_values(by=profit_col, ascending=False) may return.  The sort
\* is pandas' default kind, quicksort, which is not a stable sort: rows of equal
\* profit come out in an order the numpy build decides.
RowOrders(n) == {p \in [1..n -> 1..n] : \A i, j \in 1..n : p[i] = p[j] => i = j}

\* A variant that sorts ascending
SortValuesAscending(profit) ==
    {p \in RowOrders(Len(profit)) :
        \A i \in 1..(Len(profit) - 1) : ~DecLess(profit[p[i + 1]], profit[p[i]])}

SortValuesDescending(profit) ==
    {p \in RowOrders(Len(profit)) :
        \A i \in 1..(Len(profit) - 1) : ~DecLess(profit[p[i]], profit[p[i + 1]])}

\* The lookups of lines 72-76 all succeed
AllBound(columns) == \A role \in Roles : Matching(columns, role) # {}

\* Lines 73-76 in the order they run: curr_col, val_col, profit_col, name_col
LookupOrder == <<"Currency", "Value", "Profit", "Name">>

\* The first lookup whose list of matching columns is empty: its [0] raises
\* IndexError.  5 when all four succeed.
FirstFailing(columns) ==
    MinOf({k \in 1..Len(LookupOrder) : Matching(columns, LookupOrder[k]) = {}}
              \cup {Len(LookupOrder) + 1})

\* The column labels assigned by the lookups that ran to completion
BoundCols(columns) ==
    [k \in 1..(FirstFailing(columns) - 1) |-> FirstOfMatching(columns, LookupOrder[k])]
        \o <<>>

\* The position in the frame of the column a role is bound to
BoundIndex(columns, role) == ColumnIndex(columns, FirstOfMatching(columns, role))


\* What apply stores for a cell clean_currency_value returned a float for
FloatCell(r) == [type |-> "float", m |-> r.value.m, e |-> r.value.e]

CleanedCell(c) == FloatCell(clean_currency_value(c))

\* df[col] = df[col].apply(clean_currency_value): column j of every row replaced
ApplyClean(rows, j) ==
    [i \in 1..Len(rows) |-> [rows[i] EXCEPT ![j] = CleanedCell(@)]] \o <<>>

ColumnRaises(rows, j) ==
    \E i \in 1..Len(rows) : clean_currency_value(rows[i][j]).kind = "raise"

CanonCell(c) == [type |-> "str", s |-> CanonCurrency(c)]

\* df[col] = df[col].astype(str).str.upper().str.strip()
ApplyCanon(rows, j) ==
    [i \in 1..Len(rows) |-> [rows[i] EXCEPT ![j] = CanonCell(@)]] \o <<>>

DecOf(c) == [m |-> c.m, e |-> c.e]

\* Lines 79-83 on the rows of the frame: the value column (vi), then the profit
\* column (pi), then the currency column (ci)
CleanFrame(rows, vi, pi, ci) ==
    ApplyCanon(ApplyClean(ApplyClean(rows, vi), pi), ci)

\* An apply of lines 79-80 raises (clean_currency_value raised)
CleanRaises(rows, vi, pi) ==
    IF ColumnRaises(rows, vi)
    THEN TRUE
    ELSE ColumnRaises(ApplyClean(rows, vi), pi)

\* df[col] as a list
Column(df, j) == [i \in 1..Len(df) |-> df[i][j]] \o <<>>

TextsOf(cells) == [i \in 1..Len(cells) |-> cells[i].s] \o <<>>
FloatsOf(cells) == [i \in 1..Len(cells) |-> DecOf(cells[i])] \o <<>>

\* Lines 88-109: one metrics block per currency, in order of first appearance
MetricsOf(unique_currencies, curr, value, profit) ==
    [k \in 1..Len(unique_currencies) |->
        CurrencyMetrics(unique_currencies[k], curr, value, profit)] \o <<>>

GroupMetrics(curr, value, profit) == MetricsOf(Unique(curr), curr, value, profit)

\* Line 130 raises TypeError when a fund name is not text (str + str only)
LabelRaises(names) == \E i \in 1..Len(names) : names[i].type # "str"

\* df_summary[name_col] + " (" + df_summary[curr_col] + ")"
Labels(names, curr) ==
    [i \in 1..Len(names) |-> names[i].s \o <<" ", "(">> \o curr[i] \o <<")">>] \o <<>>

\* The columns of the cleaned frame and the metrics blocks (79-109)
AggregatesOf(curr, value, profit, names) ==
    [curr |-> curr, value |-> value, profit |-> profit, names |-> names,
     metrics |-> GroupMetrics(curr, value, profit)]

FrameAggregates(df, vi, pi, ci, ni) ==
    AggregatesOf(TextsOf(Column(df, ci)), FloatsOf(Column(df, vi)),
                 FloatsOf(Column(df, pi)), Column(df, ni))

\* How far a run of lines 70-140 gets on the frame, and what it computed:
\* "field_error" (IndexError at 72-76), "clean_error" (79-80 raise),
\* "label_error" (130 raises) or "ok"
BoundProgress(rows, vi, pi, ci, ni) ==
    IF CleanRaises(rows, vi, pi)
    THEN [stage |-> "clean_error"]
    ELSE [stage |-> "cleaned",
          agg |-> FrameAggregates(CleanFrame(rows, vi, pi, ci), vi, pi, ci, ni)]

StageOf(p) ==
    IF p.stage # "cleaned" THEN p.stage
    ELSE IF LabelRaises(p.agg.names) THEN "label_error"
    ELSE "ok"

Progress(columns, rows) ==
    IF ~AllBound(columns)
    THEN [stage |-> "field_error"]
    ELSE BoundProgress(rows, BoundIndex(columns, "Value"), BoundIndex(columns, "Profit"),
                       BoundIndex(columns, "Currency"), BoundIndex(columns, "Name"))

\* What a run of the overview leaves on the page
NoOverview ==
    [kind |-> "none", bound |-> <<>>, named_roles |-> {}, listed_columns |-> <<>>,
     curr |-> <<>>, value |-> <<>>, profit |-> <<>>,
     metrics |-> <<>>, chart |-> {}, labels |-> <<>>, df_sorted |-> <<>>]

\* except Exception (146-147): st.error with the exception's text, raised by
\* the read of lines 65-67
ReadErrorPage == [NoOverview EXCEPT !.kind = "read_error"]

\* The same handler, reached from lines 79-140 with the columns bound
ExceptionPage(bound) == [NoOverview EXCEPT !.kind = "exception", !.bound = bound]

\* A variant whose message names only the role whose lookup failed
FieldErrorPageFirstRole(columns) ==
    [NoOverview EXCEPT !.kind = "field_error",
                       !.bound = BoundCols(columns),
                       !.named_roles = {LookupOrder[FirstFailing(columns)]},
                       !.listed_columns = columns]

\* except IndexError (142-144): one fixed message naming the four fields, then
\* df_summary.columns.tolist()
FieldErrorPage(columns) ==
    [NoOverview EXCEPT !.kind = "field_error",
                       !.bound = BoundCols(columns),
                       !.named_roles = {"Currency", "Value", "Profit", "Name"},
                       !.listed_columns = columns]

\* Lines 85-125, then the TypeError of line 130 caught at 146
MetricsThenExceptionPage(bound, agg, selected) ==
    [ExceptionPage(bound) EXCEPT
        !.curr = agg.curr,
        !.value = agg.value,
        !.profit = agg.profit,
        !.metrics = agg.metrics,
        !.chart = {i \in 1..Len(agg.curr) : agg.curr[i] = selected}]

\* Lines 85-140
RenderedPage(bound, agg, selected, order) ==
    [NoOverview EXCEPT
        !.kind = "rendered",
        !.bound = bound,
        !.curr = agg.curr,
        !.value = agg.value,
        !.profit = agg.profit,
        !.metrics = agg.metrics,
        !.chart = {i \in 1..Len(agg.curr) : agg.curr[i] = selected},
        !.labels = Labels(agg.names, agg.curr),
        !.df_sorted = order]

(***************************************************************************)
(* The views.  Every run of the script redraws the page: the outputs of    *)
(* the other views are gone, and run_log holds this run's calls.           *)
(***************************************************************************)
NoForm == [kind |-> "none"]
ZeroUnits == [n |-> 0, d |-> 1]

\* st.button("重新整理") pressed: st.cache_data.clear() runs first
RefreshLog(refresh) == IF refresh THEN <<"cache_clear">> ELSE <<>>

OverviewPage(refresh, page, message) ==
    /\ menu' = "overview"
    /\ ov' = page
    /\ run_log' = RefreshLog(refresh) \o <<message>>
    /\ final_headers' = <<>>
    /\ form' = NoForm
    /\ submit_btn' = FALSE
    /\ est_units' = ZeroUnits
    /\ new_row' = <<>>
    /\ UNCHANGED <<inputs, cc_vars, ws_rows>>

\* sh.worksheet("總和") or get_all_records() raises
OverviewReadError ==
    \E refresh \in BOOLEAN : OverviewPage(refresh, ReadErrorPage, "error")

FieldErrorRun(columns, p) ==
    /\ StageOf(p) = "field_error"
    /\ \E refresh \in BOOLEAN : OverviewPage(refresh, FieldErrorPage(columns), "error")

OverviewFieldError ==
    FieldErrorRun(DataFrameColumns(sheet_headers, sheet_rows),
                  Progress(DataFrameColumns(sheet_headers, sheet_rows), sheet_rows))

CleanErrorRun(columns, p) ==
    /\ StageOf(p) = "clean_error"
    /\ \E refresh \in BOOLEAN :
           OverviewPage(refresh, ExceptionPage(BoundCols(columns)), "error")

OverviewCleanError ==
    CleanErrorRun(DataFrameColumns(sheet_headers, sheet_rows),
                  Progress(DataFrameColumns(sheet_headers, sheet_rows), sheet_rows))

LabelErrorRun(columns, p) ==
    /\ StageOf(p) = "label_error"
    /\ \E refresh \in BOOLEAN :
       \E selected \in {p.agg.curr[i] : i \in 1..Len(p.agg.curr)} :
           OverviewPage(refresh,
                        MetricsThenExceptionPage(BoundCols(columns), p.agg, selected),
                        "error")

OverviewLabelError ==
    LabelErrorRun(DataFrameColumns(sheet_headers, sheet_rows),
                  Progress(DataFrameColumns(sheet_headers, sheet_rows), sheet_rows))

RenderRun(columns, p) ==
    /\ StageOf(p) = "ok"
    /\ \E refresh \in BOOLEAN :
       \E selected \in {p.agg.curr[i] : i \in 1..Len(p.agg.curr)} :
       \E order \in SortValuesDescending(p.agg.profit) :
           OverviewPage(refresh,
                        RenderedPage(BoundCols(columns), p.agg, selected, order),
                        "dataframe")

OverviewRender ==
    RenderRun(DataFrameColumns(sheet_headers, sheet_rows),
              Progress(DataFrameColumns(sheet_headers, sheet_rows), sheet_rows))

\* The detail view (152-190) on the tab whose cells are tab_data
DetailPage(headers, log) ==
    /\ menu' = "detail"
    /\ final_headers' = headers
    /\ run_log' = log
    /\ ov' = NoOverview
    /\ form' = NoForm
    /\ submit_btn' = FALSE
    /\ est_units' = ZeroUnits
    /\ new_row' = <<>>
    /\ UNCHANGED <<inputs, cc_vars, ws_rows>>

\* sh.worksheets() raises at line 154, outside every try: the run ends there
DetailListError == DetailPage(<<>>, <<"uncaught">>)

\* The spreadsheet has no tab to select: selected_fund is None
DetailNoFund == DetailPage(<<>>, <<>>)

\* sh.worksheet(selected_fund) or get_all_values() raises
DetailReadError == DetailPage(<<>>, <<"error">>)

\* len(data) == 0
DetailEmpty == tab_data = <<>> /\ DetailPage(<<>>, <<"warning">>)

DetailView == tab_data # <<>> /\ DetailPage(NormalizeHeaders(tab_data[1]), <<"dataframe">>)

\* One call of clean_currency_value on val
CallClean ==
    /\ cc_pc = "start"
    /\ cc_result' = clean_currency_value(val)
    /\ cc_pc' = "done"
    /\ UNCHANGED <<inputs, final_headers, ov, menu, form, submit_btn, est_units,
                   new_row, ws_rows, run_log>>

(***************************************************************************)
(* The add view (195-230).                                                 *)
(***************************************************************************)
\* The options of the 交易類別 selectbox: 買入, 賣出, 配息再投資, 轉換入, 轉換出
TransTypes == <<"Buy", "Sell", "DividendReinvest", "TransferIn", "TransferOut">>

\* Dates of the date_input: [y, m, d]
DatePool == {[y |-> 2024, m |-> 1, d |-> 5], [y |-> 2025, m |-> 12, d |-> 31]}

\* n written with at least w digits
RECURSIVE ZeroPad(_, _)
ZeroPad(ds, w) == IF Len(ds) >= w THEN ds ELSE ZeroPad(<<"0">> \o ds, w)

\* str(date_val): date.isoformat(), YYYY-MM-DD
DateStr(date) ==
    ZeroPad(DigitsOf(date.y), 4) \o <<"-">> \o ZeroPad(DigitsOf(date.m), 2)
        \o <<"-">> \o ZeroPad(DigitsOf(date.d), 2)

\* The values of the form's widgets before anything is submitted
DefaultForm(today) ==
    [kind |-> "form", date_val |-> today, trans_type |-> TransTypes[1],
     price |-> Zero, amount |-> Zero, fee |-> Zero]

\* Values a user can submit: every number_input has min_value=0.0
FormPool ==
    [kind : {"form"}, date_val : DatePool,
     trans_type : {TransTypes[i] : i \in 1..Len(TransTypes)},
     price : {NormDec(m, e) : m \in 0..MaxPrice, e \in {-1, 0}},
     amount : {NormDec(m, 0) : m \in 0..MaxAmount},
     fee : {NormDec(m, 0) : m \in 0..MaxFee}]

\* A variant that subtracts the fee for every category
EstUnitsFeeAlways(f) ==
    IF DecLess(Zero, f.price)
    THEN DecDiv(DecSub(f.amount, f.fee), f.price)
    ELSE ZeroUnits

\* Lines 212-214
EstUnits(f) ==
    IF DecLess(Zero, f.price)
    THEN IF f.trans_type = "Buy"
         THEN DecDiv(DecSub(f.amount, f.fee), f.price)
         ELSE DecDiv(f.amount, f.price)
    ELSE ZeroUnits

\* A variant with the price and the amount in each other's position
NewRowPriceFirst(f) ==
    <<DateStr(f.date_val), <<>>, f.trans_type, f.price, f.amount, <<>>, f.fee,
      <<>>, <<>>, EstUnits(f)>>

\* Lines 223-225; "" is the empty text
NewRow(f) ==
    <<DateStr(f.date_val), <<>>, f.trans_type, f.amount, f.price, <<>>, f.fee,
      <<>>, <<>>, EstUnits(f)>>

AddPage(f, submitted, row, appended, log) ==
    /\ menu' = "add"
    /\ form' = f
    /\ submit_btn' = submitted
    /\ est_units' = EstUnits(f)
    /\ new_row' = row
    /\ ws_rows' = ws_rows + appended
    /\ run_log' = log
    /\ ov' = NoOverview
    /\ final_headers' = <<>>
    /\ UNCHANGED <<inputs, cc_vars>>

\* sh.worksheets() raises at line 198, outside every try: the run ends there
AddListError ==
    /\ menu' = "add"
    /\ form' = NoForm
    /\ submit_btn' = FALSE
    /\ est_units' = ZeroUnits
    /\ new_row' = <<>>
    /\ run_log' = <<"uncaught">>
    /\ ov' = NoOverview
    /\ final_headers' = <<>>
    /\ UNCHANGED <<inputs, cc_vars, ws_rows>>

\* A run of the add view without a submit: the form keeps its values, or shows
\* the defaults when the view was not on the page
AddShow ==
    \E today \in DatePool :
        AddPage(IF form = NoForm THEN DefaultForm(today) ELSE form, FALSE, <<>>, 0,
                <<"info">>)

\* 確認新增 pressed on the form of the page; sh.worksheet(target_fund) raises
SubmitWorksheetError ==
    /\ form # NoForm
    /\ AddPage(entry, TRUE, <<>>, 0, <<"info", "error">>)

\* A variant that appends again after the failure and then reports success
SubmitAppendErrorRetry ==
    /\ form # NoForm
    /\ ws_rows < MaxAppends
    /\ AddPage(entry, TRUE, NewRow(entry), 1,
               <<"info", "append_row", "error", "append_row", "success", "cache_clear">>)

\* ws.append_row(new_row) raises
SubmitAppendError ==
    /\ form # NoForm
    /\ AddPage(entry, TRUE, NewRow(entry), 0, <<"info", "append_row", "error">>)

SubmitSuccess ==
    /\ form # NoForm
    /\ ws_rows < MaxAppends
    /\ AddPage(entry, TRUE, NewRow(entry), 1,
               <<"info", "append_row", "success", "cache_clear">>)

(***************************************************************************)
(* Sheets the views are run on.                                            *)
(***************************************************************************)
Text(s) == [type |-> "str", s |-> s]

\* 基金名稱, 總現值\n含息, 總現值, 損益\n(含息), 幣別, Currency, 含息總現值損益
HName == FundNameText
HValue == TotalValueText \o <<"\n">> \o WithInterestText
HValuePlain == TotalValueText
HProfit == ProfitText \o <<"\n", "(">> \o WithInterestText \o <<")">>
HCurrZh == CurrencyZhText
HCurrEn == CurrencyEnText
HBoth == WithInterestText \o TotalValueText \o ProfitText

SummaryHeaderPool == {HName, HValue, HValuePlain, HProfit, HCurrZh, HCurrEn, HBoth}

\* get_all_records() accepts a header row only if its cells are distinct
DistinctSeqs(S, n) ==
    {h \in SeqsUpTo(S, n) : \A i, j \in 1..Len(h) : h[i] = h[j] => i = j}

\* Rows of the summary tab: one cell per kind of column.  get_all_records()
\* hands a cell that reads as a number over as an int or a float.
RowA ==
    [name |-> Text(<<"A">>), value |-> Text(<<"$", "2">>), profit |-> IntArg(1, 0),
     curr |-> Text(<<"u", "s", "d">>)]
RowB ==
    [name |-> Text(<<"B">>), value |-> IntArg(1, 0), profit |-> Text(<<"1">>),
     curr |-> Text(<<" ", "U", "S", "D">>)]
RowC ==
    [name |-> Text(<<"C">>), value |-> Text(<<"1", ".", "5">>),
     profit |-> Text(<<"-", "-">>), curr |-> Text(<<"T", "W", "D">>)]
RowD ==
    [name |-> Text(<<"D">>), value |-> FloatArg(5, -1), profit |-> Text(<<"-", "1">>),
     curr |-> Text(<<"U", "S", "D">>)]
\* a value cell of 310 digits
RowHuge ==
    [name |-> Text(<<"E">>), value |-> IntArg(1, DblMax10Exp + 1), profit |-> IntArg(1, 0),
     curr |-> Text(<<"U", "S", "D">>)]
\* a fund whose name reads as a number
RowNumericName ==
    [name |-> IntArg(5, 1), value |-> IntArg(2, 0), profit |-> IntArg(1, 0),
     curr |-> Text(<<"t", "w", "d">>)]

RowPool == {RowA, RowB, RowC, RowD, RowHuge, RowNumericName}

\* The cell a row holds under a header
CellUnder(r, h) ==
    IF IsNameCol(h) THEN r.name
    ELSE IF IsValCol(h) THEN r.value
    ELSE IF IsProfitCol(h) THEN r.profit
    ELSE IF IsCurrCol(h) THEN r.curr
    ELSE Text(<<"x">>)

SheetRows(headers, rs) ==
    [i \in 1..Len(rs) |-> [j \in 1..Len(headers) |-> CellUnder(rs[i], headers[j])] \o <<>>]
        \o <<>>

CanonicalHeaders == <<HName, HValue, HProfit, HCurrZh>>

BlankPage ==
    /\ final_headers = <<>>
    /\ ov = NoOverview
    /\ menu = "none"
    /\ form = NoForm
    /\ submit_btn = FALSE
    /\ est_units = ZeroUnits
    /\ new_row = <<>>
    /\ ws_rows = 0
    /\ run_log = <<>>

NoCall == cc_result = [kind |-> "none"] /\ cc_pc = "idle"

(***************************************************************************)
(* Specifications.                                                         *)
(***************************************************************************)
NextDetail ==
    \/ DetailListError
    \/ DetailNoFund
    \/ DetailReadError
    \/ DetailEmpty
    \/ DetailView

NextOverview ==
    \/ OverviewReadError
    \/ OverviewFieldError
    \/ OverviewCleanError
    \/ OverviewLabelError
    \/ OverviewRender

NextAdd ==
    \/ AddListError
    \/ AddShow
    \/ SubmitWorksheetError
    \/ SubmitAppendError
    \/ SubmitSuccess

\* The detail view on every header row of the pool
InitHeaders ==
    /\ tab_data \in {<<>>} \cup {<<h>> : h \in SeqsUpTo(HeaderPool, MaxCols)}
    /\ sheet_headers = <<>> /\ sheet_rows = <<>>
    /\ val = OtherArg /\ entry = NoForm
    /\ NoCall /\ BlankPage

SpecHeaders == InitHeaders /\ [][NextDetail]_vars

\* clean_currency_value on every argument of the pool
InitCoerce ==
    /\ val \in ValPool
    /\ cc_result = [kind |-> "none"] /\ cc_pc = "start"
    /\ tab_data = <<>> /\ sheet_headers = <<>> /\ sheet_rows = <<>> /\ entry = NoForm
    /\ BlankPage

SpecCoerce == InitCoerce /\ [][CallClean]_vars

\* The overview on every header row of distinct pool headers, over no row or one
InitResolve ==
    /\ sheet_headers \in DistinctSeqs(SummaryHeaderPool, MaxHeaders)
    /\ \E rs \in {<<>>, <<RowA>>, <<RowHuge>>, <<RowNumericName>>} :
           sheet_rows = SheetRows(sheet_headers, rs)
    /\ tab_data = <<>> /\ val = OtherArg /\ entry = NoForm
    /\ NoCall /\ BlankPage

SpecResolve == InitResolve /\ [][NextOverview]_vars

\* The overview on a few header rows, over every list of pool rows
InitAggregate ==
    /\ sheet_headers \in {CanonicalHeaders, <<HCurrEn, HBoth, HName>>,
                          <<HName, HValuePlain, HProfit, HCurrZh>>}
    /\ \E rs \in SeqsUpTo(RowPool, MaxRows) : sheet_rows = SheetRows(sheet_headers, rs)
    /\ tab_data = <<>> /\ val = OtherArg /\ entry = NoForm
    /\ NoCall /\ BlankPage

SpecAggregate == InitAggregate /\ [][NextOverview]_vars

\* The add view on every set of values of the pool
InitRow ==
    /\ entry \in FormPool
    /\ tab_data = <<>> /\ sheet_headers = <<>> /\ sheet_rows = <<>> /\ val = OtherArg
    /\ NoCall /\ BlankPage

SpecRow == InitRow /\ [][NextAdd]_vars

\* The whole script: any view in any order, on one of a few spreadsheets, with
\* one of two sets of values typed into the form
InitApp ==
    /\ \E w \in { <<CanonicalHeaders, RowA, <<>> >>,
                  <<CanonicalHeaders, RowHuge, << <<<<"X">>, <<>>, <<"X">>>> >> >>,
                  <<CanonicalHeaders, RowNumericName, << <<<<"X">>, <<"X">>>> >> >>,
                  <<<<HName, HValuePlain, HProfit, HCurrZh>>, RowB, <<>> >> } :
        /\ sheet_headers = w[1]
        /\ sheet_rows = SheetRows(w[1], <<w[2]>>)
        /\ tab_data = w[3]
    /\ val = OtherArg
    /\ entry \in {f \in FormPool : /\ f.date_val.y = 2024
                                   /\ f.trans_type \in {"Buy", "Sell"}
                                   /\ f.price = NormDec(1, 0)
                                   /\ f.amount = NormDec(MaxAmount, 0)
                                   /\ f.fee = NormDec(MaxFee, 0)}
    /\ NoCall /\ BlankPage

NextApp == NextOverview \/ NextDetail \/ NextAdd

SpecApp == InitApp /\ [][NextApp]_vars

(***************************************************************************)
(* Properties: header normalisation (SpecHeaders).                         *)
(***************************************************************************)
\* C1: the header list the detail view produces contains no two equal strings,
\* whatever the raw header row (blanks, repeats, headers that already read as a
\* generated name).
C1_HeadersPairwiseDistinct ==
    \A i, j \in 1..Len(final_headers) : final_headers[i] = final_headers[j] => i = j

\* The header loop keeps the length of the row and produces no empty name
HeadersKeepLengthNonEmpty ==
    (menu = "detail" /\ run_log = <<"dataframe">>) =>
        /\ Len(final_headers) = Len(tab_data[1])
        /\ \A i \in 1..Len(final_headers) : final_headers[i] # <<>>

(***************************************************************************)
(* Properties: clean_currency_value (SpecCoerce).                          *)
(***************************************************************************)
\* What the claim says of a text: the characters left once every '$', ',' and
\* whitespace character is dropped, in their order
Residual(s) ==
    LET keep == {i \in 1..Len(s) : s[i] \notin {"$", ",", " ", "\t", "\n"}}
        nth[k \in 0..Cardinality(keep)] ==
            IF k = 0 THEN 0 ELSE CHOOSE i \in keep : i > nth[k - 1] /\
                                     \A j \in keep : j > nth[k - 1] => i <= j
    IN  [k \in 1..Cardinality(keep) |-> s[nth[k]]]

\* C5: clean_currency_value returns a number for every input and never raises;
\* a numeric input comes back unchanged; a text gives the value of its residual
\* when that is a number (the sign kept) and 0.0 otherwise; anything else 0.0.
C5_CoercerTotal ==
    cc_pc = "done" =>
        /\ cc_result.kind = "return"
        /\ val.type \in {"int", "float"} => cc_result.value = [m |-> val.m, e |-> val.e]
        /\ val.type = "str" =>
               LET r == PyFloatStr(Residual(val.s))
               IN  cc_result.value = IF r.ok THEN r.value ELSE Zero
        /\ val.type = "other" => cc_result.value = Zero

\* The same statement for the arguments float() can represent
CoercerTotalInRange ==
    (cc_pc = "done" /\ ~(val.type = "int" /\ IntTooLarge(val))) =>
        /\ cc_result.kind = "return"
        /\ val.type \in {"int", "float"} => cc_result.value = [m |-> val.m, e |-> val.e]
        /\ val.type = "str" =>
               LET r == PyFloatStr(Residual(val.s))
               IN  cc_result.value = IF r.ok THEN r.value ELSE Zero
        /\ val.type = "other" => cc_result.value = Zero

\* Examples of the specification: "-1" stays negative, "--" gives 0.0
CoercerExamples ==
    /\ clean_currency_value(StrArg(<<"$", "1", ",", "5", ".", "5">>)) = Return([m |-> 155, e |-> -1])
    /\ clean_currency_value(StrArg(<<"-", "1">>)) = Return([m |-> -1, e |-> 0])
    /\ clean_currency_value(StrArg(<<"-", "-">>)) = Return(Zero)
    /\ clean_currency_value(StrArg(<<"1", " ", "5">>)) = Return([m |-> 15, e |-> 0])
    /\ clean_currency_value(IntArg(15, 2)) = Return([m |-> 15, e |-> 2])

(***************************************************************************)
(* Properties: the row of the add view (SpecRow).                          *)
(***************************************************************************)
\* The fraction q is the quotient a / b of two decimals, b # 0
IsQuotient(q, a, b) ==
    LET e == Min2(a.e, b.e)
    IN  /\ q.d # 0
        /\ q.n * (b.m * Pow10(b.e - e)) = q.d * (a.m * Pow10(a.e - e))

\* C2: the unit count is (amount - fee) / price for a Buy and amount / price for
\* every other category when price > 0, and 0.0 when price = 0.
C2_UnitCount ==
    form # NoForm =>
        /\ ~DecLess(form.price, Zero) /\ ~DecLess(form.amount, Zero) /\ ~DecLess(form.fee, Zero)
        /\ form.trans_type \in {"Buy", "Sell", "DividendReinvest", "TransferIn", "TransferOut"}
        /\ IF form.price = Zero
           THEN est_units = [n |-> 0, d |-> 1]
           ELSE IF form.trans_type = "Buy"
           THEN IsQuotient(est_units, DecSub(form.amount, form.fee), form.price)
           ELSE IsQuotient(est_units, form.amount, form.price)

\* A Buy of amount 2 with fee 1 at price 0.1 was submitted: 10 units
C2_Witness ==
    /\ submit_btn
    /\ form.trans_type = "Buy"
    /\ form.amount = [m |-> 2, e |-> 0]
    /\ form.fee = [m |-> 1, e |-> 0]
    /\ form.price = [m |-> 1, e |-> -1]
    /\ est_units = [n |-> 10, d |-> 1]

\* A Sell with a fee: the fee is not subtracted
SellIgnoresFee ==
    (form # NoForm /\ form.trans_type = "Sell" /\ form.price = [m |-> 1, e |-> 0]) =>
        est_units = [n |-> form.amount.m * Pow10(form.amount.e), d |-> 1]

\* t is the ISO text YYYY-MM-DD of a date
IsIsoDate(t, date) ==
    /\ Len(t) = 10
    /\ t[5] = "-" /\ t[8] = "-"
    /\ \A i \in (1..10) \ {5, 8} : t[i] \in Digits
    /\ DigitsValue(SubSeq(t, 1, 4)) = date.y
    /\ DigitsValue(SubSeq(t, 6, 7)) = date.m
    /\ DigitsValue(SubSeq(t, 9, 10)) = date.d

\* C3: every row handed to append_row has 10 fields: the date as text, "", the
\* category, the amount, the price, "", the fee, "", "", the unit count
\* (positions 0..9 of the source are 1..10 here).
C3_RowLayout ==
    new_row # <<>> =>
        /\ menu = "add" /\ submit_btn
        /\ Len(new_row) = 10
        /\ IsIsoDate(new_row[1], form.date_val)
        /\ new_row[2] = <<>> /\ new_row[6] = <<>> /\ new_row[8] = <<>> /\ new_row[9] = <<>>
        /\ new_row[3] = form.trans_type
        /\ new_row[4] = form.amount
        /\ new_row[5] = form.price
        /\ new_row[7] = form.fee
        /\ new_row[10] = est_units

\* A transfer with amount, price and fee all different from one another was appended
C3_Witness ==
    /\ new_row # <<>>
    /\ ws_rows > 0
    /\ form.trans_type = "TransferIn"
    /\ form.amount = [m |-> 2, e |-> 0]
    /\ form.price = [m |-> 1, e |-> -1]
    /\ form.fee = [m |-> 1, e |-> 0]

(***************************************************************************)
(* Properties: the column lookup (SpecResolve).                            *)
(***************************************************************************)
\* The substrings a role requires, as the specification lists them
Satisfies(role, h) ==
    CASE role = "Name" -> Contains(h, <<"J", "K", "M", "G">>)
      [] role = "Value" -> Contains(h, <<"Z", "X", "V">>) /\ Contains(h, <<"H", "I">>)
      [] role = "Profit" -> Contains(h, <<"S", "Y">>) /\ Contains(h, <<"H", "I">>)
      [] role = "Currency" ->
            Contains(h, <<"B", "E">>) \/ Contains(h, <<"C", "u", "r", "r", "e", "n", "c", "y">>)

FrameColumns == DataFrameColumns(sheet_headers, sheet_rows)

Unsatisfied == {r \in Roles : \A i \in 1..Len(FrameColumns) : ~Satisfies(r, FrameColumns[i])}

NoAggregation ==
    /\ ov.metrics = <<>> /\ ov.chart = {} /\ ov.labels = <<>> /\ ov.df_sorted = <<>>
    /\ ov.curr = <<>> /\ ov.value = <<>> /\ ov.profit = <<>>

C9_FirstMatchPerRole ==
    /\ ov.kind \in {"rendered", "exception"} => Len(ov.bound) = 4
    /\ \A k \in 1..Len(ov.bound) :
           \E i \in 1..Len(FrameColumns) :
               /\ Satisfies(LookupOrder[k], FrameColumns[i])
               /\ \A j \in 1..(i - 1) : ~Satisfies(LookupOrder[k], FrameColumns[j])
               /\ ov.bound[k] = FrameColumns[i]
    /\ (FrameColumns = CanonicalHeaders /\ ov.kind = "rendered") =>
           ov.bound = <<FrameColumns[4], FrameColumns[2], FrameColumns[3], FrameColumns[1]>>

\* One column is bound to both Value and Profit, ahead of a later column that
\* also has the value substrings
C9_Witness ==
    /\ Len(ov.bound) = 4
    /\ ov.bound[2] = ov.bound[3]
    /\ \E i, j \in 1..Len(FrameColumns) :
           i < j /\ FrameColumns[i] = ov.bound[2] /\ Satisfies("Value", FrameColumns[j])

(***************************************************************************)
(* Properties: grouping, return figure and ranking (SpecAggregate).        *)
(***************************************************************************)
IsRankingOfAll(order, n) ==
    /\ Len(order) = n
    /\ \A r \in 1..n : \E i \in 1..n : order[i] = r

IsDescending(order, profit) ==
    \A i \in 1..(Len(order) - 1) : ~DecLess(profit[order[i]], profit[order[i + 1]])

TieReversed ==
    /\ ov.kind = "rendered"
    /\ Len(ov.df_sorted) = 2
    /\ ov.profit[1] = ov.profit[2]
    /\ ov.df_sorted = <<2, 1>>

\* The cost of a group: total value less total profit
CostOf(g) == DecSub(g.total_assets, g.total_profit)

\* The fraction q is k times the quotient a / b of two decimals, b # 0
IsScaledQuotient(q, k, a, b) ==
    LET e == Min2(a.e, b.e)
    IN  /\ q.d # 0
        /\ q.n * (b.m * Pow10(b.e - e)) = k * q.d * (a.m * Pow10(a.e - e))

\* C7 as stated: a group's return figure is totalProfit / (totalValue -
\* totalProfit), and zero when that difference is zero.
C7_ReturnRatio ==
    \A k \in 1..Len(ov.metrics) :
        LET g == ov.metrics[k]
        IN  IF CostOf(g) = Zero
            THEN g.roi = [n |-> 0, d |-> 1]
            ELSE IsScaledQuotient(g.roi, 1, g.total_profit, CostOf(g))

\* C7: a group's return figure is the percentage 100 * totalProfit /
\* (totalValue - totalProfit), and zero when that difference is zero.
C7_ReturnPercent ==
    \A k \in 1..Len(ov.metrics) :
        LET g == ov.metrics[k]
        IN  IF CostOf(g) = Zero
            THEN g.roi = [n |-> 0, d |-> 1]
            ELSE IsScaledQuotient(g.roi, 100, g.total_profit, CostOf(g))

\* One group whose cost is zero, another with value 2 and profit 1: 100 percent
C7_Witness ==
    \E k, l \in 1..Len(ov.metrics) :
        /\ CostOf(ov.metrics[k]) = Zero
        /\ ov.metrics[k].total_profit # Zero
        /\ ov.metrics[k].roi = [n |-> 0, d |-> 1]
        /\ CostOf(ov.metrics[l]) = [m |-> 1, e |-> 0]
        /\ ov.metrics[l].roi = [n |-> 100, d |-> 1]

\* The cell of row i under the column bound to the currency role
CurrencyCell(i) ==
    sheet_rows[i][CHOOSE j \in 1..Len(FrameColumns) : FrameColumns[j] = ov.bound[1]]

TwoGroups ==
    ov.kind = "rendered" /\ Len(sheet_rows) = 2 /\ Len(ov.metrics) = 2

(***************************************************************************)
(* Properties: the append (SpecApp).                                       *)
(***************************************************************************)
Positions(call, log) == {i \in 1..Len(log) : log[i] = call}

AppendLogOk ==
    /\ Cardinality(Positions("append_row", run_log)) <= 1
    /\ Positions("append_row", run_log) # {} => menu = "add" /\ submit_btn
    /\ (menu = "add" /\ submit_btn) =>
           /\ Positions("error", run_log) # {} \/ Positions("success", run_log) # {}
           /\ Positions("error", run_log) # {} =>
                  /\ Positions("success", run_log) = {}
                  /\ Positions("cache_clear", run_log) = {}
                  /\ run_log[Len(run_log)] = "error"
           /\ Positions("success", run_log) # {} =>
                  \E a \in Positions("append_row", run_log) :
                  \E b \in Positions("success", run_log) :
                  \E c \in Positions("cache_clear", run_log) : a < b /\ b < c
    /\ (menu = "add" /\ ~submit_btn) =>
           Positions("success", run_log) = {} /\ Positions("cache_clear", run_log) = {}

AppendStepOk ==
    /\ ws_rows' # ws_rows =>
           /\ menu' = "add" /\ submit_btn'
           /\ ws_rows' = ws_rows + 1
           /\ Positions("success", run_log') # {}
    /\ (menu' = "add" /\ Positions("success", run_log') # {}) => ws_rows' = ws_rows + 1

\* C10: a row is appended only by a submit in the add view, at most once per
\* submit; a failure of the append or of opening the tab is reported, with no
\* second attempt, no success message and no cache clear; a success is reported
\* and the cache cleared after it.
C10_AppendSequencing == []AppendLogOk /\ [][AppendStepOk]_vars

\* After one row was stored, a later submit's append failed and was reported
C10_Witness ==
    /\ menu = "add" /\ submit_btn
    /\ ws_rows = 1
    /\ run_log = <<"info", "append_row", "error">>

====
